---------------------------- MODULE Spec2Model ----------------------------
(***************************************************************************)
(* Model of two parts of just_join_v2:                                     *)
(*                                                                         *)
(*   - src/voxel_world/biomes/mod.rs: the chunk biome orchestrator         *)
(*     biomes_generate, the selector get_generator_by_atrr, the noise      *)
(*     sampler biomes_noise and the default method gen_land;               *)
(*   - src/client/state_manager/game.rs: the PlayState machine driven by   *)
(*     setup, toggle_play_staff_rules and client_do_disconnected.          *)
(*                                                                         *)
(* Spec is the biome machine, PlaySpec the client machine.  Each keeps the *)
(* other machine's variables fixed.                                        *)
(*                                                                         *)
(* Modelling choices:                                                      *)
(*   - f32 attributes are bit patterns compared as IEEE 754 compares them; *)
(*     f32 heights are integer-valued and carried as integers, rounded to  *)
(*     a 24-bit significand;                                               *)
(*   - chunk keys are those whose products with the edge length fit i32    *)
(*     (the code's i32 multiplication does not overflow on them);          *)
(*   - the Worley field is a fixed function of (seed, world x, world z)    *)
(*     whose values cover every band, every threshold and the non-finite   *)
(*     values;                                                             *)
(*   - the variants' gen_land_with_info bodies live outside the two source *)
(*     files and are taken from the specification: each writes its surface *)
(*     material at chunk_index.                                            *)
(***************************************************************************)
EXTENDS Integers, Sequences, FiniteSets, TLC

VARIABLES
    \* ---- biomes_generate ----
    pc,            \* "idle" | "loop" | "done" | "panicked"
    chunk_key,     \* ChunkKey argument, [x, y, z]
    seed,          \* seed argument
    suface_index,  \* the surface-index list argument
    pos,           \* number of list elements the for loop has consumed
    voxels,        \* the voxel buffer, a function on 0 .. E^3 - 1
    noise,         \* local `noise`: Vec<f32> as a function on 0 .. len - 1
    calls,         \* log of the calls made: biomes_noise and gen_land_with_info
    \* ---- client play state ----
    phase,             \* "Idle" | "StateTransition" | "Update"
    todo,              \* systems of the current phase that have not run yet
    game_state,        \* State<GameState>
    next_game_state,   \* NextState<GameState>
    state,             \* State<PlayState>
    next_play_state,   \* NextState<PlayState>
    flag,              \* ControllerFlag.flag
    window,            \* primary window: [present, grab_mode, visible]
    key_e,             \* keyboard_input.just_pressed(KeyCode::E) this frame
    just_disconnected  \* client_just_diconnected() this frame

biome_vars == <<pc, chunk_key, seed, suface_index, pos, voxels, noise, calls>>
play_vars == <<phase, todo, game_state, next_game_state, state, next_play_state,
               flag, window, key_e, just_disconnected>>
vars == <<biome_vars, play_vars>>

----------------------------------------------------------------------------
(* Bounds of the model *)

\* Chunk edge length (crate::CHUNK_SIZE, CHUNK_SIZE_U32); every operator is
\* written for an arbitrary edge.
CHUNK_SIZE == 4
\* Longest surface-index list.
MaxLen == 2
\* Seeds range over 0 .. MaxSeed.
MaxSeed == 3

CHUNK_SIZE_U32 == CHUNK_SIZE

----------------------------------------------------------------------------
(* f32 values.  An attribute is the bit pattern of an f32: the sign bit and *)
(* the 31 remaining bits (exponent and mantissa) as a number.               *)

F32(neg, mag) == [neg |-> neg, mag |-> mag]

\* Bit patterns (sign bit dropped) of the f32 literals of the selector.
LIT_0_1 == 1036831949
LIT_0_4 == 1053609165
LIT_0_6 == 1058642330
LIT_0_8 == 1061997773
\* The exponent-all-ones pattern: infinity; anything above it is a NaN.
F32_INF_BITS == 255 * 2^23

IsNaN(a) == a.mag > F32_INF_BITS
IsFinite(a) == a.mag < F32_INF_BITS

\* Position of a non-NaN f32 on the real line: bit patterns of one sign are
\* ordered like the values they encode, and -0.0 = +0.0.
Ord(a) == IF a.neg THEN 0 - a.mag ELSE a.mag

\* IEEE 754 `<` as Rust's f32 PartialOrd gives it: false when either is NaN.
F32Lt(a, b) == ~IsNaN(a) /\ ~IsNaN(b) /\ Ord(a) < Ord(b)

\* i32 -> f32 (`as f32`): round to nearest, ties to even, 24-bit significand.
\* The value of the resulting f32 is an integer and is returned as such.
Pow2Floor(a) == CHOOSE p \in {2^k : k \in 0..30} : p <= a /\ a - p < p

F32FromInt(n) ==
    LET a == IF n < 0 THEN 0 - n ELSE n
    IN IF a < 2^24 THEN n
       ELSE LET q == Pow2Floor(a) \div 2^23
                r == a % q
                lo == a - r
                up == IF 2 * r > q \/ (2 * r = q /\ (lo \div q) % 2 = 1)
                      THEN lo + q ELSE lo
            IN IF n < 0 THEN 0 - up ELSE up

\* f32 addition of two integer-valued f32: the exact sum, rounded.
F32Add(a, b) == F32FromInt(a + b)


----------------------------------------------------------------------------
(* ndshape: ConstShape3u32<X, Y, Z> and ConstShape2u32<X, Y>.  Neither     *)
(* function checks its argument against the shape.                         *)

\* ConstShape3u32::<X, Y, _>::delinearize(i) = [x, y, z]
ConstShape3_delinearize(X, Y, i) ==
    LET z == i \div (X * Y)
        r == i - z * (X * Y)
    IN <<r % X, r \div X, z>>

\* ConstShape2u32::<X, _>::linearize([x, y])
ConstShape2_linearize(X, p) == p[1] + X * p[2]

\* A power-of-two shape's delinearize, which masks each coordinate.
SampleShape_delinearize_masked(i) ==
    LET d == ConstShape3_delinearize(CHUNK_SIZE_U32, CHUNK_SIZE_U32, i)
    IN <<d[1], d[2], d[3] % CHUNK_SIZE_U32>>

\* SampleShape = ConstShape3u32<E, E, E>
SampleShape_delinearize(i) ==
    ConstShape3_delinearize(CHUNK_SIZE_U32, CHUNK_SIZE_U32, i)

\* PanleShap = ConstShape2u32<E, E>
PanleShap_linearize(p) == ConstShape2_linearize(CHUNK_SIZE_U32, p)

\* A plane index taken from x and y.
PlaneIndexOf_xy(index) ==
    LET d == SampleShape_delinearize(index)
    IN PanleShap_linearize(<<d[1], d[2]>>)

\* Lines 41-42 of biomes_generate: the plane index of a buffer index.
PlaneIndexOf(index) ==
    LET d == SampleShape_delinearize(index)
    IN PanleShap_linearize(<<d[1], d[3]>>)

----------------------------------------------------------------------------
(* The biome selector *)

Variants == {"BasicLand", "DryLand", "SnowLand", "SandLand", "BlueLand"}

\* A selector whose first band is closed above (`<=` for `<`).
get_generator_closed_first_band(data) ==
    IF F32Lt(data, F32(FALSE, LIT_0_1 + 1)) THEN "BasicLand"
    ELSE IF F32Lt(data, F32(FALSE, LIT_0_4)) THEN "DryLand"
    ELSE IF F32Lt(data, F32(FALSE, LIT_0_6)) THEN "SnowLand"
    ELSE IF F32Lt(data, F32(FALSE, LIT_0_8)) THEN "SandLand"
    ELSE "BlueLand"

get_generator_by_atrr(data) ==
    IF F32Lt(data, F32(FALSE, LIT_0_1)) THEN "BasicLand"
    ELSE IF F32Lt(data, F32(FALSE, LIT_0_4)) THEN "DryLand"
    ELSE IF F32Lt(data, F32(FALSE, LIT_0_6)) THEN "SnowLand"
    ELSE IF F32Lt(data, F32(FALSE, LIT_0_8)) THEN "SandLand"
    ELSE "BlueLand"

----------------------------------------------------------------------------
(* The noise sampler.  Worley is the noise crate's function: a fixed field *)
(* over the plane for each seed.  The model draws its values from          *)
(* AttrSamples, so that every band, every threshold and its two            *)
(* neighbours, and the non-finite values all occur.                        *)

AttrSamples ==
    << F32(FALSE, 0),                     \*  0.0
       F32(TRUE, 0),                      \* -0.0
       F32(FALSE, LIT_0_1 - 1),           \* largest f32 below 0.1
       F32(FALSE, LIT_0_1),               \* 0.1
       F32(FALSE, LIT_0_1 + 1),
       F32(FALSE, LIT_0_4 - 1),
       F32(FALSE, LIT_0_4),               \* 0.4
       F32(FALSE, LIT_0_4 + 1),
       F32(FALSE, LIT_0_6 - 1),
       F32(FALSE, LIT_0_6),               \* 0.6
       F32(FALSE, LIT_0_6 + 1),
       F32(FALSE, LIT_0_8 - 1),
       F32(FALSE, LIT_0_8),               \* 0.8
       F32(FALSE, LIT_0_8 + 1),
       F32(FALSE, 2^30 - 2^23),           \*  1.0
       F32(TRUE, 2^30 - 2^23),            \* -1.0
       F32(TRUE, LIT_0_4),                \* -0.4
       F32(FALSE, F32_INF_BITS),          \* +infinity
       F32(TRUE, F32_INF_BITS),           \* -infinity
       F32(FALSE, F32_INF_BITS + 2^22) >> \* NaN

\* Worley::new(seed)...get([wx, wz]) as f32
Worley_get(s, wx, wz) ==
    AttrSamples[((s + 3 * wx + 7 * wz) % Len(AttrSamples)) + 1]

\* A window whose second axis is offset by the key's y.
NoiseWindow_y(key) ==
    LET x_offset == key.x * CHUNK_SIZE
        z_offset == key.y * CHUNK_SIZE
    IN [width |-> CHUNK_SIZE, height |-> CHUNK_SIZE,
        x_lo |-> x_offset, x_hi |-> x_offset + CHUNK_SIZE,
        y_lo |-> z_offset, y_hi |-> z_offset + CHUNK_SIZE]

\* The window biomes_noise hands to PlaneMapBuilder: set_size, set_x_bounds,
\* set_y_bounds.
NoiseWindow(key) ==
    LET x_offset == key.x * CHUNK_SIZE
        z_offset == key.z * CHUNK_SIZE
    IN [width |-> CHUNK_SIZE, height |-> CHUNK_SIZE,
        x_lo |-> x_offset, x_hi |-> x_offset + CHUNK_SIZE,
        y_lo |-> z_offset, y_hi |-> z_offset + CHUNK_SIZE]

\* PlaneMapBuilder::build: grid point (col, row) is sampled at
\* (x_lo + col * x_step, y_lo + row * y_step) and stored at col + row * width.
PlaneMap_build(s, w) ==
    LET x_step == (w.x_hi - w.x_lo) \div w.width
        y_step == (w.y_hi - w.y_lo) \div w.height
    IN [i \in 0 .. (w.width * w.height - 1) |->
          Worley_get(s, w.x_lo + (i % w.width) * x_step,
                        w.y_lo + (i \div w.width) * y_step)]

biomes_noise(key, s) == PlaneMap_build(s, NoiseWindow(key))

VecLen(v) == Cardinality(DOMAIN v)

----------------------------------------------------------------------------
(* The generator contract *)

\* Surface material each variant lays down (the variants' own modules).
SurfaceMaterial(variant) ==
    CASE variant = "BasicLand" -> "Grass"
      [] variant = "DryLand" -> "DryGrass"
      [] variant = "SnowLand" -> "Snow"
      [] variant = "SandLand" -> "Sand"
      [] variant = "BlueLand" -> "BlueGrass"

\* gen_land_with_info of a variant: the buffer after the call.
gen_land_with_info(variant, key, buf, chunk_index, plane_index, height, xyz) ==
    [buf EXCEPT ![chunk_index] = SurfaceMaterial(variant)]

\* Lines 102 and 104 for edge length `edge`: base_y and height, in f32.
gen_land_height(edge, key_y, local_y) ==
    LET base_y == F32FromInt(key_y * edge)
    IN F32Add(base_y, F32FromInt(local_y))

\* A gen_land that takes the local x for the height.
gen_land_args_x(variant, key, chunk_index, plane_index) ==
    LET d == SampleShape_delinearize(chunk_index)
    IN [op |-> "gen_land_with_info", variant |-> variant, chunk_key |-> key,
        chunk_index |-> chunk_index, plane_index |-> plane_index,
        height |-> gen_land_height(CHUNK_SIZE, key.y, d[1]), xyz |-> d]

\* The arguments the default gen_land hands to gen_land_with_info.
gen_land_args(variant, key, chunk_index, plane_index) ==
    LET d == SampleShape_delinearize(chunk_index)
        height == gen_land_height(CHUNK_SIZE, key.y, d[2])
    IN [op |-> "gen_land_with_info", variant |-> variant, chunk_key |-> key,
        chunk_index |-> chunk_index, plane_index |-> plane_index,
        height |-> height, xyz |-> d]

\* gen_land: one gen_land_with_info call, logged, on the buffer.
gen_land(variant, key, buf, chunk_index, plane_index) ==
    LET a == gen_land_args(variant, key, chunk_index, plane_index)
    IN [voxels |-> gen_land_with_info(a.variant, a.chunk_key, buf,
                       a.chunk_index, a.plane_index, a.height, a.xyz),
        call |-> a]


----------------------------------------------------------------------------
(* biomes_generate as a process: entry, one step per loop iteration, return *)

\* Chunk keys around the origin and, on the y axis, far from it: 2^23, the
\* last key on each side whose heights all lie within [-2^24, 2^24] (where
\* every integer is an f32), and the first key beyond it.
ChunkKeyYs ==
    {-2, 0, 2, 2^23,
     (2^24 - (CHUNK_SIZE - 1)) \div CHUNK_SIZE,
     (2^24 - (CHUNK_SIZE - 1)) \div CHUNK_SIZE + 1,
     0 - (2^24 \div CHUNK_SIZE),
     0 - (2^24 \div CHUNK_SIZE) - 1}

ChunkKeys ==
    [x : {-1, 0, 1}, y : ChunkKeyYs, z : {0, 1}]

Seeds == 0 .. MaxSeed

E3 == CHUNK_SIZE * CHUNK_SIZE * CHUNK_SIZE
E2 == CHUNK_SIZE * CHUNK_SIZE

\* Surface indices the lists are made of: in the buffer (two of one column,
\* other columns, the last cell) and outside it.
SurfaceSamples ==
    {0, 1, CHUNK_SIZE, E2, E2 + CHUNK_SIZE + 1, E3 - 1,
     E3, E3 + E2 + 1, 2^30 + (2^30 - 1)}

SurfaceLists ==
    UNION {[1 .. n -> SurfaceSamples] : n \in 0 .. MaxLen}

FreshVoxels == [i \in 0 .. (E3 - 1) |-> "Stone"]

BiomeInit ==
    /\ pc = "idle"
    /\ chunk_key = [x |-> 0, y |-> 0, z |-> 0]
    /\ seed = 0
    /\ suface_index = <<>>
    /\ pos = 0
    /\ voxels = FreshVoxels
    /\ noise = <<>>
    /\ calls = <<>>

\* A call that samples the noise field before it looks at the list.
CallEmpty_sample_first ==
    /\ pc = "idle"
    /\ \E key \in ChunkKeys, s \in Seeds :
          /\ chunk_key' = key
          /\ seed' = s
          /\ noise' = biomes_noise(key, s)
          /\ calls' = Append(calls, [op |-> "biomes_noise",
                                     chunk_key |-> key, seed |-> s])
    /\ suface_index' = <<>>
    /\ pc' = "done"
    /\ UNCHANGED <<pos, voxels>>

\* Lines 27-35: the call with an empty list returns at once.
CallEmpty ==
    /\ pc = "idle"
    /\ \E key \in ChunkKeys, s \in Seeds :
          /\ chunk_key' = key
          /\ seed' = s
    /\ suface_index' = <<>>
    /\ pc' = "done"
    /\ UNCHANGED <<pos, voxels, noise, calls>>

\* Lines 27-37: the call with a non-empty list samples the noise field.
CallSample ==
    /\ pc = "idle"
    /\ \E key \in ChunkKeys, s \in Seeds, list \in SurfaceLists :
          /\ Len(list) # 0
          /\ chunk_key' = key
          /\ seed' = s
          /\ suface_index' = list
          /\ noise' = biomes_noise(key, s)
          /\ calls' = Append(calls, [op |-> "biomes_noise",
                                     chunk_key |-> key, seed |-> s])
    /\ pc' = "loop"
    /\ UNCHANGED <<pos, voxels>>

\* An iteration that samples the noise field again.
LoopBody_resample ==
    /\ pc = "loop"
    /\ pos < Len(suface_index)
    /\ LET index == suface_index[pos + 1]
           index_2d == PlaneIndexOf(index)
       IN /\ index_2d < VecLen(noise)
          /\ LET atrr == noise[index_2d]
                 generator == get_generator_by_atrr(atrr)
                 r == gen_land(generator, chunk_key, voxels, index, index_2d)
             IN /\ voxels' = r.voxels
                /\ calls' = calls \o <<[op |-> "biomes_noise",
                                        chunk_key |-> chunk_key, seed |-> seed],
                                       r.call>>
    /\ pos' = pos + 1
    /\ UNCHANGED <<pc, chunk_key, seed, suface_index, noise>>

\* An iteration that skips an index whose column was handled already.
LoopBody_skip_seen_column ==
    /\ pc = "loop"
    /\ pos < Len(suface_index)
    /\ LET index == suface_index[pos + 1]
           index_2d == PlaneIndexOf(index)
       IN /\ index_2d < VecLen(noise)
          /\ LET atrr == noise[index_2d]
                 generator == get_generator_by_atrr(atrr)
                 r == gen_land(generator, chunk_key, voxels, index, index_2d)
                 seen == \E k \in 1 .. pos :
                            PlaneIndexOf(suface_index[k]) = index_2d
             IN /\ voxels' = IF seen THEN voxels ELSE r.voxels
                /\ calls' = IF seen THEN calls ELSE Append(calls, r.call)
    /\ pos' = pos + 1
    /\ UNCHANGED <<pc, chunk_key, seed, suface_index, noise>>

\* Lines 39-45: one iteration whose `noise[index_2d as usize]` is in bounds.
LoopBody ==
    /\ pc = "loop"
    /\ pos < Len(suface_index)
    /\ LET index == suface_index[pos + 1]
           index_2d == PlaneIndexOf(index)
       IN /\ index_2d < VecLen(noise)
          /\ LET atrr == noise[index_2d]
                 generator == get_generator_by_atrr(atrr)
                 r == gen_land(generator, chunk_key, voxels, index, index_2d)
             IN /\ voxels' = r.voxels
                /\ calls' = Append(calls, r.call)
    /\ pos' = pos + 1
    /\ UNCHANGED <<pc, chunk_key, seed, suface_index, noise>>

\* Line 43: `noise[index_2d as usize]` out of bounds panics.
LoopPanic ==
    /\ pc = "loop"
    /\ pos < Len(suface_index)
    /\ PlaneIndexOf(suface_index[pos + 1]) >= VecLen(noise)
    /\ pc' = "panicked"
    /\ UNCHANGED <<chunk_key, seed, suface_index, pos, voxels, noise, calls>>

\* Lines 47-48: the list is exhausted and the call returns.
Return ==
    /\ pc = "loop"
    /\ pos = Len(suface_index)
    /\ pc' = "done"
    /\ UNCHANGED <<chunk_key, seed, suface_index, pos, voxels, noise, calls>>

----------------------------------------------------------------------------
(* The client play state.  A frame of the Main schedule is the             *)
(* StateTransition schedule (the two apply_state_transition systems, in    *)
(* either order) followed by the Update schedule (its systems in any       *)
(* order, each behind its run condition).                                  *)

PlayStates == {"Main", "StaffRules", "State", "Disabled"}
GrabModes == {"None", "Confined", "Locked"}
NoWindow == [present |-> FALSE, grab_mode |-> "None", visible |-> TRUE]
Windows ==
    [present : {TRUE}, grab_mode : GrabModes, visible : BOOLEAN] \cup {NoWindow}

PlayInit ==
    /\ phase = "Idle"
    /\ todo = {}
    /\ game_state = "Menu"
    /\ next_game_state = "None"
    /\ state = "Disabled"
    /\ next_play_state = "None"
    /\ flag \in BOOLEAN
    /\ window = [present |-> TRUE, grab_mode |-> "None", visible |-> TRUE]
    /\ key_e = FALSE
    /\ just_disconnected = FALSE

\* Lines 147-164: play_state.set(PlayState::Main); flags.flag = true.
setup ==
    /\ next_play_state' = "Main"
    /\ flag' = TRUE

\* A toggle whose StaffRules arm leaves the controller flag alone.
toggle_keeps_flag ==
    IF window.present /\ key_e
    THEN IF state = "StaffRules"
         THEN /\ flag' = flag
              /\ next_play_state' = "Main"
              /\ window' = IF window.grab_mode = "None"
                           THEN [window EXCEPT !.grab_mode = "Confined", !.visible = FALSE]
                           ELSE window
         ELSE /\ flag' = FALSE
              /\ next_play_state' = "StaffRules"
              /\ window' = IF window.grab_mode = "None"
                           THEN window
                           ELSE [window EXCEPT !.grab_mode = "None", !.visible = TRUE]
    ELSE UNCHANGED <<flag, next_play_state, window>>

\* Lines 167-202.
toggle_play_staff_rules ==
    IF window.present /\ key_e
    THEN IF state = "StaffRules"
         THEN /\ flag' = TRUE
              /\ next_play_state' = "Main"
              /\ window' = IF window.grab_mode = "None"
                           THEN [window EXCEPT !.grab_mode = "Confined", !.visible = FALSE]
                           ELSE window
         ELSE /\ flag' = FALSE
              /\ next_play_state' = "StaffRules"
              /\ window' = IF window.grab_mode = "None"
                           THEN window
                           ELSE [window EXCEPT !.grab_mode = "None", !.visible = TRUE]
    ELSE UNCHANGED <<flag, next_play_state, window>>

\* Lines 227-247: play_state.set(Disabled); game_state.set(Menu).
client_do_disconnected ==
    /\ next_play_state' = "Disabled"
    /\ next_game_state' = "Menu"

\* A frame starts: the input, the connection and the window as the other
\* plugins and the user left them.
BeginFrame ==
    /\ phase = "Idle"
    /\ key_e' \in BOOLEAN
    /\ just_disconnected' \in BOOLEAN
    /\ window' \in Windows
    /\ phase' = "StateTransition"
    /\ todo' = {"apply_game_state", "apply_play_state"}
    /\ UNCHANGED <<game_state, next_game_state, state, next_play_state, flag>>

\* apply_state_transition::<GameState>, with OnEnter(GameState::Game) = setup
\* (line 68).
ApplyGameState ==
    /\ phase = "StateTransition"
    /\ "apply_game_state" \in todo
    /\ todo' = todo \ {"apply_game_state"}
    /\ IF next_game_state = "None"
       THEN UNCHANGED <<game_state, next_game_state, next_play_state, flag>>
       ELSE /\ game_state' = next_game_state
            /\ next_game_state' = "None"
            /\ IF next_game_state = "Game" /\ game_state # "Game"
               THEN setup
               ELSE UNCHANGED <<next_play_state, flag>>
    /\ UNCHANGED <<phase, state, window, key_e, just_disconnected>>

\* apply_state_transition::<PlayState> (line 67: add_state).
ApplyPlayState ==
    /\ phase = "StateTransition"
    /\ "apply_play_state" \in todo
    /\ todo' = todo \ {"apply_play_state"}
    /\ IF next_play_state = "None"
       THEN UNCHANGED <<state, next_play_state>>
       ELSE /\ state' = next_play_state
            /\ next_play_state' = "None"
    /\ UNCHANGED <<phase, game_state, next_game_state, flag, window, key_e,
                   just_disconnected>>

\* The StateTransition schedule is over; Update starts.
StartUpdate ==
    /\ phase = "StateTransition"
    /\ todo = {}
    /\ phase' = "Update"
    /\ todo' = {"toggle_play_staff_rules", "client_do_disconnected", "menu"}
    /\ UNCHANGED <<game_state, next_game_state, state, next_play_state, flag,
                   window, key_e, just_disconnected>>

\* Lines 75-78: toggle_play_staff_rules behind run_if(in_state(Game)).
RunToggle ==
    /\ phase = "Update"
    /\ "toggle_play_staff_rules" \in todo
    /\ todo' = todo \ {"toggle_play_staff_rules"}
    /\ IF game_state = "Game"
       THEN toggle_play_staff_rules
       ELSE UNCHANGED <<flag, next_play_state, window>>
    /\ UNCHANGED <<phase, game_state, next_game_state, state, key_e,
                   just_disconnected>>

\* Lines 126-131: client_do_disconnected behind in_state(Game) and
\* client_just_diconnected().
RunDisconnected ==
    /\ phase = "Update"
    /\ "client_do_disconnected" \in todo
    /\ todo' = todo \ {"client_do_disconnected"}
    /\ IF game_state = "Game" /\ just_disconnected
       THEN client_do_disconnected
       ELSE UNCHANGED <<next_play_state, next_game_state>>
    /\ UNCHANGED <<phase, game_state, state, flag, window, key_e,
                   just_disconnected>>

\* The menu may start a game: the request that makes OnEnter(Game) run.
RunMenu ==
    /\ phase = "Update"
    /\ "menu" \in todo
    /\ todo' = todo \ {"menu"}
    /\ \/ /\ game_state = "Menu"
          /\ next_game_state' = "Game"
       \/ UNCHANGED next_game_state
    /\ UNCHANGED <<phase, game_state, state, next_play_state, flag, window,
                   key_e, just_disconnected>>

\* The frame is over.
EndFrame ==
    /\ phase = "Update"
    /\ todo = {}
    /\ phase' = "Idle"
    /\ UNCHANGED <<todo, game_state, next_game_state, state, next_play_state,
                   flag, window, key_e, just_disconnected>>

----------------------------------------------------------------------------
(* The two specifications *)

PlayIdle ==
    /\ PlayInit
    /\ flag = FALSE

Init == BiomeInit /\ PlayIdle

Next ==
    \/ CallEmpty /\ UNCHANGED play_vars
    \/ CallSample /\ UNCHANGED play_vars
    \/ LoopBody /\ UNCHANGED play_vars
    \/ LoopPanic /\ UNCHANGED play_vars
    \/ Return /\ UNCHANGED play_vars

Spec == Init /\ [][Next]_vars

PlaySpecInit == PlayInit /\ BiomeInit

PlayNext ==
    \/ BeginFrame /\ UNCHANGED biome_vars
    \/ ApplyGameState /\ UNCHANGED biome_vars
    \/ ApplyPlayState /\ UNCHANGED biome_vars
    \/ StartUpdate /\ UNCHANGED biome_vars
    \/ RunToggle /\ UNCHANGED biome_vars
    \/ RunDisconnected /\ UNCHANGED biome_vars
    \/ RunMenu /\ UNCHANGED biome_vars
    \/ EndFrame /\ UNCHANGED biome_vars

PlaySpec == PlaySpecInit /\ [][PlayNext]_vars

----------------------------------------------------------------------------
(* Properties of the biome machine (checked under Spec)                    *)

\* The k-th logged call after the noise call, for k in 1 .. pos.
GenCall(k) == calls[k + 1]
IsGen(c) == c.op = "gen_land_with_info"

\* The attribute the k-th iteration read.
AttrAt(k) == noise[PlaneIndexOf(suface_index[k])]

\* The band of a non-NaN attribute, by its position on the real line.  No
\* f32 lies between a decimal threshold (0.1, 0.4, 0.6, 0.8) and the f32
\* literal nearest to it, so for an f32 `a`, a < 0.1 is Ord(a) < LIT_0_1.
Band(a) ==
    CASE Ord(a) < LIT_0_1 -> "BasicLand"
      [] LIT_0_1 <= Ord(a) /\ Ord(a) < LIT_0_4 -> "DryLand"
      [] LIT_0_4 <= Ord(a) /\ Ord(a) < LIT_0_6 -> "SnowLand"
      [] LIT_0_6 <= Ord(a) /\ Ord(a) < LIT_0_8 -> "SandLand"
      [] LIT_0_8 <= Ord(a) -> "BlueLand"

\* The selector on every finite sample: one variant, that of its band.
SelectorOnEverySample ==
    \A n \in 1 .. Len(AttrSamples) :
       IsFinite(AttrSamples[n]) =>
          /\ get_generator_by_atrr(AttrSamples[n]) \in Variants
          /\ get_generator_by_atrr(AttrSamples[n]) = Band(AttrSamples[n])

\* C1: the selector maps every finite attribute to the variant of its
\* half-open band, a threshold value going to the upper band: every
\* generator call made for a finite attribute is on Band(attribute), and
\* so is the selector on every finite sample.
C1_SelectorBands ==
    /\ \A k \in 1 .. pos :
          IsFinite(AttrAt(k)) => GenCall(k).variant = Band(AttrAt(k))
    /\ SelectorOnEverySample

\* C1 case: an iteration read exactly 0.1 and ran DryLand.
C1_Witness ==
    \E k \in 1 .. pos :
       /\ AttrAt(k) = F32(FALSE, LIT_0_1)
       /\ GenCall(k).variant = "DryLand"

\* C2: a call with an empty list returns with the buffer as it was and
\* with no call to biomes_noise or to a generator.
C2_EmptyListNoOp ==
    (pc = "done" /\ suface_index = <<>>) =>
       (voxels = FreshVoxels /\ calls = <<>>)

\* C2 case: a call with an empty list has returned.
C2_Witness ==
    pc = "done" /\ suface_index = <<>> /\ chunk_key.y = -2 /\ seed = 1

\* C3 (as claimed): no generator runs for an attribute that is not finite.
C3_NonFiniteAborts ==
    \A k \in 1 .. pos : IsFinite(AttrAt(k))

\* C4 (as claimed): every generator call gets height = chunk_key.y * E + y.
C4_HeightExactForEveryKey ==
    \A k \in 1 .. pos :
       GenCall(k).height =
          chunk_key.y * CHUNK_SIZE + SampleShape_delinearize(suface_index[k])[2]

\* The heights of every cell of the chunk with key y lie in [-2^24, 2^24].
HeightsWithinF32Integers(y) ==
    /\ 0 - 2^24 <= y * CHUNK_SIZE
    /\ y * CHUNK_SIZE + (CHUNK_SIZE - 1) <= 2^24

\* C4 (amended): for a chunk key with -2^24 <= chunk_key.y * E and
\* chunk_key.y * E + E - 1 <= 2^24 (negative y included) the default
\* gen_land calls gen_land_with_info with height = chunk_key.y * E + y and,
\* for every chunk key, with xyz = (x, y, z) = delinearize3d(chunk_index),
\* passing chunk_key, chunk_index and plane_index through; key (0,2,0),
\* E = 32, y = 3 gives 67.
C4_HeightAndPassThrough ==
    /\ \A k \in 1 .. pos :
          LET c == GenCall(k)
              d == ConstShape3_delinearize(CHUNK_SIZE, CHUNK_SIZE, suface_index[k])
          IN /\ IsGen(c)
             /\ (HeightsWithinF32Integers(chunk_key.y) =>
                    c.height = chunk_key.y * CHUNK_SIZE + d[2])
             /\ c.xyz = d
             /\ c.chunk_key = chunk_key
             /\ c.chunk_index = suface_index[k]
             /\ c.plane_index = d[1] + CHUNK_SIZE * d[3]
    /\ gen_land_height(32, 2, ConstShape3_delinearize(32, 32, 3 * 32)[2]) = 67

\* C4 case: a generator ran in the lowest chunk of the range (negative key
\* y, chunk_key.y * E at or just above -2^24) for a cell with local y = 1.
C4_Witness ==
    \E k \in 1 .. pos :
       /\ chunk_key.y = 0 - (2^24 \div CHUNK_SIZE)
       /\ HeightsWithinF32Integers(chunk_key.y)
       /\ GenCall(k).xyz[2] = 1
       /\ GenCall(k).height = chunk_key.y * CHUNK_SIZE + 1

\* C5: an index outside [0, E^3) makes the call panic when the loop reaches
\* it, no generator runs for it, and the call never returns normally.
C5_OutOfRangeAborts ==
    /\ \A k \in 1 .. pos : suface_index[k] < E3 /\ GenCall(k).chunk_index < E3
    /\ pc = "done" => \A k \in 1 .. Len(suface_index) : suface_index[k] < E3
    /\ pc = "panicked" => (pos < Len(suface_index) /\ suface_index[pos + 1] >= E3)
    /\ (pc = "loop" /\ pos < Len(suface_index) /\ suface_index[pos + 1] >= E3)
          => (ENABLED LoopPanic /\ ~ENABLED LoopBody)

\* C5 case: the call panicked at its second index, after one generator ran.
C5_Witness ==
    pc = "panicked" /\ pos = 1 /\ suface_index[2] = E3 /\ Len(calls) = 2

\* C6: a call with a non-empty list calls biomes_noise exactly once, with
\* the call's chunk key and seed, before every generator call.
C6_NoiseOnceFirst ==
    (pc # "idle" /\ suface_index # <<>>) =>
       /\ Len(calls) >= 1
       /\ calls[1] = [op |-> "biomes_noise", chunk_key |-> chunk_key, seed |-> seed]
       /\ \A n \in 2 .. Len(calls) : IsGen(calls[n])

\* C6 case: a call with MaxLen indices has returned.
C6_Witness ==
    pc = "done" /\ Len(suface_index) = MaxLen /\ Len(calls) = MaxLen + 1

\* C7: for a list of indices in [0, E^3), gen_land runs once per element, in
\* list order, on the variant the selector gives for the attribute at the
\* element's plane index, with the element and its plane index as arguments.
C7_OneGeneratorPerIndex ==
    /\ Len(calls) = (IF pc = "idle" \/ suface_index = <<>> THEN 0 ELSE pos + 1)
    /\ \A k \in 1 .. pos :
          LET index == suface_index[k]
              d == ConstShape3_delinearize(CHUNK_SIZE, CHUNK_SIZE, index)
              plane == d[1] + CHUNK_SIZE * d[3]
              c == GenCall(k)
          IN /\ IsGen(c)
             /\ c.chunk_index = index
             /\ c.plane_index = plane
             /\ c.variant = get_generator_by_atrr(biomes_noise(chunk_key, seed)[plane])
    /\ (pc = "done" /\ \A k \in 1 .. Len(suface_index) : suface_index[k] < E3)
          => pos = Len(suface_index)

\* C7 case: a call has returned after two indices of one column.
C7_Witness ==
    /\ pc = "done"
    /\ suface_index = <<CHUNK_SIZE, 0>>
    /\ GenCall(1).chunk_index = CHUNK_SIZE
    /\ GenCall(2).chunk_index = 0

\* C8: the window of chunk key K is [K.x*E, K.x*E + E) by [K.z*E, K.z*E + E)
\* on an E by E grid, every chunk sampling the one field of the seed, so the
\* windows of neighbouring keys abut: the upper bound of K is the lower bound
\* of its neighbour on that axis.
C8_WindowsAbut ==
    (pc # "idle" /\ suface_index # <<>>) =>
       LET w == NoiseWindow(chunk_key)
           east == NoiseWindow([chunk_key EXCEPT !.x = @ + 1])
           south == NoiseWindow([chunk_key EXCEPT !.z = @ + 1])
           up == NoiseWindow([chunk_key EXCEPT !.y = @ + 1])
       IN /\ w.width = CHUNK_SIZE /\ w.height = CHUNK_SIZE
          /\ w.x_lo = chunk_key.x * CHUNK_SIZE /\ w.x_hi = w.x_lo + CHUNK_SIZE
          /\ w.y_lo = chunk_key.z * CHUNK_SIZE /\ w.y_hi = w.y_lo + CHUNK_SIZE
          /\ east.x_lo = w.x_hi /\ east.y_lo = w.y_lo /\ east.y_hi = w.y_hi
          /\ south.y_lo = w.y_hi /\ south.x_lo = w.x_lo /\ south.x_hi = w.x_hi
          /\ up = w
          /\ DOMAIN noise = 0 .. (E2 - 1)
          /\ \A px, pz \in 0 .. (CHUNK_SIZE - 1) :
                noise[px + CHUNK_SIZE * pz] =
                   Worley_get(seed, chunk_key.x * CHUNK_SIZE + px,
                                    chunk_key.z * CHUNK_SIZE + pz)

\* C8 case: the field of a chunk west of and south of the origin, above the
\* ground plane, has been sampled.
C8_Witness ==
    /\ pc = "loop"
    /\ chunk_key = [x |-> -1, y |-> 2, z |-> 1]
    /\ Len(calls) = 1

\* The plane index over the whole buffer: in range, and equal for two cells
\* exactly when their x (i mod E) and z (i div E^2) are equal.
PlaneIndexOfEveryCell ==
    \A i \in 0 .. (E3 - 1) :
       /\ PlaneIndexOf(i) \in 0 .. (E2 - 1)
       /\ \A j \in 0 .. (E3 - 1) :
             (PlaneIndexOf(i) = PlaneIndexOf(j))
                <=> (/\ i % CHUNK_SIZE = j % CHUNK_SIZE
                     /\ i \div E2 = j \div E2)

\* C9: for every buffer index i in [0, E^3) the plane index is in [0, E^2),
\* and two buffer indices have the same plane index exactly when they have
\* the same local x and z.
C9_PlaneIndex ==
    /\ \A k \in 1 .. pos : GenCall(k).plane_index \in 0 .. (E2 - 1)
    /\ \A j, k \in 1 .. pos :
          (GenCall(j).plane_index = GenCall(k).plane_index)
             <=> (/\ GenCall(j).xyz[1] = GenCall(k).xyz[1]
                  /\ GenCall(j).xyz[3] = GenCall(k).xyz[3])
    /\ PlaneIndexOfEveryCell

\* C9 case: two generator calls of one column at different heights.
C9_Witness ==
    /\ pos = 2
    /\ GenCall(1).plane_index = GenCall(2).plane_index
    /\ GenCall(1).xyz[2] # GenCall(2).xyz[2]


----------------------------------------------------------------------------
(* Properties of the play-state machine (checked under PlaySpec)           *)

\* The PlayState last requested: the pending NextState, or, once it has
\* been applied, the state itself.
Requested == IF next_play_state # "None" THEN next_play_state ELSE state

\* Since setup nothing but E presses has asked for a state: the game is on
\* and no disconnect has been handled.
AfterSetup == game_state = "Game" /\ next_game_state = "None"

\* This step is toggle_play_staff_rules handling an E press with a window.
TogglePress ==
    /\ phase = "Update"
    /\ "toggle_play_staff_rules" \in todo
    /\ "toggle_play_staff_rules" \notin todo'
    /\ game_state = "Game"
    /\ window.present
    /\ key_e

\* C10: after setup and any E presses, the controller flag is false
\* exactly when the PlayState last requested is StaffRules and true exactly
\* when it is Main; an E press in StaffRules requests Main, an E press in
\* any other PlayState requests StaffRules.
C10_FlagFollowsPlayState ==
    /\ [](AfterSetup =>
             /\ (flag = FALSE <=> Requested = "StaffRules")
             /\ (flag = TRUE <=> Requested = "Main"))
    /\ [][TogglePress =>
             next_play_state' = (IF state = "StaffRules" THEN "Main"
                                 ELSE "StaffRules")]_vars

\* C10 case: after setup, E was pressed twice: Main is requested again
\* while StaffRules is still the state, and the flag is back to true.
C10_Witness ==
    /\ AfterSetup
    /\ state = "StaffRules"
    /\ next_play_state = "Main"
    /\ flag = TRUE
    /\ window.present
    /\ window.grab_mode = "Confined"

=============================================================================
